---- MODULE Spec2Model ----
(***************************************************************************)
(* Build orchestration of unity_builder/platforms.py (PlatformBuilder):    *)
(* one batch call (build_all_platforms / build_selected_platforms) running *)
(* build_platform once per platform, against a filesystem tree under       *)
(* <project_root>/Builds, an external build tool and a wall clock.         *)
(***************************************************************************)
EXTENDS Integers, Sequences, FiniteSets, TLC

VARIABLES
    ftp,               \* WebGLFTPUploader.ftp: None or the ftplib client object
    sock,              \* the client's control connection
    fpc,               \* position inside WebGLFTPUploader.upload_webgl_build
    ftp_use_tls,       \* WEBGL_FTP_USE_TLS
    ftp_overwrite,     \* WEBGL_FTP_OVERWRITE
    nfiles,            \* len(files_to_upload)
    remaining,         \* files the upload loop has not reached yet
    uploaded_count,    \* local of upload_webgl_build
    fret,              \* what upload_webgl_build returned, if it has
    env,               \* host: [darwin, android_home]
    config,            \* the Config object the PlatformBuilder was given
    ncalls,            \* number of the current call on the PlatformBuilder
    prior,             \* build_results as they were when the current call began
    ret,               \* what build_*_with_upload returned, if it has
    call,              \* the batch call: [mode, platforms, pre_build_hook, skip_hook]
    clock,             \* wall clock, in minutes (the resolution of the timestamp)
    fs,                \* entries under Builds: path -> content
    dirs,              \* directories under Builds that exist
    build_results,     \* PlatformBuilder.build_results
    success_count,     \* local of the batch call
    idx,               \* position of the batch loop in call.platforms
    pc,                \* position of the control flow
    exc,               \* the exception that left the batch call, if any
    platform_name,     \* locals of build_platform ...
    unity_output_path,
    final_output_path,
    hook_to_use,
    returncode,
    build_summary,
    build_succeeded,
    items,             \* entries of version_dir still to be iterated (windows)
    item,              \* the entry the windows loop is at
    spawned,           \* subprocesses spawned by the current attempt
    fresh,             \* entries written by the current attempt's build
    seen,              \* what reconciliation found on disk: [summary, output]
    hook_outcome,      \* how the hook subprocess of the current attempt ended
    eager_dir,         \* the directory get_build_output_path created (line 195)
    caught,            \* the exception line 378 caught in the current attempt, and where
    nbuilds            \* number of build subprocesses run so far

uploader == << ftp, sock, fpc, ftp_use_tls, ftp_overwrite, nfiles, remaining,
               uploaded_count, fret >>

vars == << uploader, env, config, ncalls, prior, ret, call, clock, fs, dirs, build_results, success_count, idx, pc, exc,
           platform_name, unity_output_path, final_output_path, hook_to_use,
           returncode, build_summary, build_succeeded, items, item, spawned,
           fresh, seen, hook_outcome, eager_dir, caught, nbuilds >>

builder == << env, config, ncalls, prior, ret, call, clock, fs, dirs, build_results,
              success_count, idx, pc, exc, platform_name, unity_output_path,
              final_output_path, hook_to_use, returncode, build_summary,
              build_succeeded, items, item, spawned, fresh, seen, hook_outcome,
              eager_dir, caught, nbuilds >>

locals == << platform_name, unity_output_path, final_output_path, hook_to_use,
             returncode, build_summary, build_succeeded, items, item, spawned, fresh,
             seen, hook_outcome, eager_dir >>

-----------------------------------------------------------------------------
(* Bounds *)

\* The clock advances at most this many minutes during one run.
MaxClock == 1

\* At most this many batch calls are made on one PlatformBuilder.
MaxCalls == 2

\* A WebGL build directory holds at most this many files.
MaxFiles == 3

-----------------------------------------------------------------------------
(* Static data *)

\* PlatformBuilder.PLATFORMS, in dictionary order, with each extension.
PLATFORMS == << "windows", "mac", "android", "webgl", "ios" >>

KnownPlatforms == { PLATFORMS[i] : i \in 1..Len(PLATFORMS) }

Extension == [ windows |-> ".exe", mac |-> ".app", android |-> ".apk",
               webgl |-> "", ios |-> "" ]

\* PlatformBuilder.PLATFORM_DIR_NAMES
PLATFORM_DIR_NAMES == [ windows |-> "windows", mac |-> "mac", android |-> "android",
                        webgl |-> "webgl", ios |-> "ios" ]

\* str.capitalize() on the platform identifiers
Capitalize == [ windows |-> "Windows", mac |-> "Mac", android |-> "Android",
                webgl |-> "Webgl", ios |-> "Ios" ]

\* The attributes Config.__init__ sets on the configuration object.
ConfigAttrs == { "project_root", "project_name", "company_name", "unity_version",
                 "project_version", "bundle_identifier", "unity_path" }

\* config.project_name and config.project_version of the run
project_name == "App"
project_version == "1.0.0"

\* A product name the external tool may use instead of the configured one.
OtherName == "Alt"

None == "None"
NoPath == << >>

\* Config.__init__: the values the run is configured with
InitialConfig ==
    [ project_root |-> "root", project_name |-> project_name,
      project_version |-> project_version, unity_path |-> "Unity" ]

\* build_*_with_upload has not returned
NoReturn == [ success |-> None, message |-> None, upload |-> None ]

-----------------------------------------------------------------------------
(* Paths: [dir, sub, name] is <project_root>/Builds/<dir>/<sub>/<name>;     *)
(* <sub> is <<version>> or <<version, minute>>; <name> is <<stem, ext>>.   *)

Dir(folder, sub) == [ dir |-> folder, sub |-> sub ]
Entry(d, name) == [ dir |-> d.dir, sub |-> d.sub, name |-> name ]
Parent(p) == [ dir |-> p.dir, sub |-> p.sub ]

Exists(p) == p \in DOMAIN fs
Listing(d) == { p \in DOMAIN fs : Parent(p) = d }

SUMMARY_NAME == << "build_summary", ".json" >>
PLAYER_NAME == << "UnityPlayer", ".dll" >>

\* datetime.now().strftime("%d-%m-%Y_%H-%M"): the minute of the clock reading
Timestamp(t) == t

\* PlatformBuilder._get_unity_output_path_with_name
GetUnityOutputPathWithName(platform, product_name, extension) ==
    Entry(Dir(PLATFORM_DIR_NAMES[platform], << config.project_version >>),
          << product_name, extension >>)

\* PlatformBuilder._get_unity_output_path
GetUnityOutputPath(platform, extension) ==
    Entry(Dir(PLATFORM_DIR_NAMES[platform], << config.project_version >>),
          << config.project_name, extension >>)

\* Config.get_build_output_path, the path it returns
GetBuildOutputPath(platform, extension, t) ==
    Entry(Dir(Capitalize[platform], << config.project_version, Timestamp(t) >>),
          << config.project_name, extension >>)

\* mutant: the final path keeps the configured name
DriftFinalPath_ConfiguredName(platform, product_name, extension, t) ==
    Entry(Dir(PLATFORM_DIR_NAMES[platform], << config.project_version, Timestamp(t) >>),
          << config.project_name, extension >>)

\* build_platform, lines 229-237: the final path recomputed for a reported name
DriftFinalPath(platform, product_name, extension, t) ==
    Entry(Dir(PLATFORM_DIR_NAMES[platform], << config.project_version, Timestamp(t) >>),
          << product_name, extension >>)

-----------------------------------------------------------------------------
(* Self-reports: what build_summary.json may hold.                         *)

\* An optional key of the report is << >> when absent and << value >> when
\* present: errors holds the list itself, build_size_mb the size in half
\* megabytes.
Unparsed(json) ==
    [ json |-> json, status |-> "absent", product_name |-> "absent",
      errors |-> << >>, build_size_mb |-> << >> ]

NoReport == Unparsed("n/a")
NoSummary == Unparsed(None)

Report(status, product) ==
    [ json |-> "object", status |-> status, product_name |-> product,
      errors |-> << >>, build_size_mb |-> << >> ]

\* a report of failure that lists the compiler errors
FailedWithErrors == [ Report("failed", "absent") EXCEPT !.errors = << "CS0103", "CS1002" >> ]

\* a report of success that states the size of the build: 12.5 MB
SuccessWithSize == [ Report("success", "absent") EXCEPT !.build_size_mb = << 25 >> ]

\* json: "garbage" does not parse; "falsy" parses to an empty/falsy value
\* ({} [] null 0); "nonobject" parses to a truthy value that is no object;
\* "object" is a non-empty JSON object.
Summaries ==
    { Unparsed("garbage"),
      Unparsed("falsy"),
      Unparsed("nonobject"),
      FailedWithErrors,
      SuccessWithSize,
      Report("success", "absent"),
      Report("success", OtherName),
      Report("failed", "absent"),
      Report("absent", "absent") }

\* PlatformBuilder._read_build_summary: the parsed report, or None
SummaryPath(platform) ==
    Entry(Dir(PLATFORM_DIR_NAMES[platform], << config.project_version >>), SUMMARY_NAME)

ReadBuildSummary(platform) ==
    LET summary_path == SummaryPath(platform)
    IN  IF Exists(summary_path) /\ fs[summary_path].report.json # "garbage"
        THEN fs[summary_path].report
        ELSE NoSummary

\* Python truth value of the parsed report ("if build_summary:")
Truthy(summary) == summary.json \in { "object", "nonobject" }

\* build_summary.get('status') == 'success'
SummaryStatusSuccess(summary) == summary.status = "success"

\* mutant: the exit code alone decides
FallbackSucceeded_ExitCodeOnly(rc, path) == rc = 0

\* the fallback tier, line 244
FallbackSucceeded(rc, path) == rc = 0 /\ Exists(path)

-----------------------------------------------------------------------------
(* Availability *)

\* PlatformBuilder.check_platform_available: <<available, reason>>
CheckPlatformAvailable(platform) ==
    IF platform = "android" /\ ~env.android_home
        THEN << FALSE, "ANDROID_HOME environment variable not set" >>
    ELSE IF platform = "mac" /\ ~env.darwin
        THEN << FALSE, "Mac builds only available on macOS" >>
    ELSE IF platform = "ios" /\ ~env.darwin
        THEN << FALSE, "iOS builds only available on macOS (outputs Xcode project)" >>
    ELSE << TRUE, None >>

-----------------------------------------------------------------------------
(* Result records *)

Result(platform, status, reason, path) ==
    [ platform |-> platform, status |-> status, reason |-> reason, output_path |-> path ]

Last(s) == s[Len(s)]

NothingSeen == [ summary |-> FALSE, output |-> FALSE ]

NotCaught == [ at |-> None, e |-> None ]

HookNames == { None, "BuildHooks.Prepare" }

Hosts == [ darwin : BOOLEAN, android_home : BOOLEAN ]

Linux == [ darwin |-> FALSE, android_home |-> FALSE ]
MacWithSdk == [ darwin |-> TRUE, android_home |-> TRUE ]

Selected(r, h, s) ==
    [ mode |-> "selected", platforms |-> r, pre_build_hook |-> h, skip_hook |-> s ]

\* requests of at most one platform, run on every host with every hook option
Singles ==
    { << >>, << "windows" >>, << "webgl" >>, << "android" >>, << "mac" >>, << "ios" >>,
      << "linux" >> }

\* requests of two platforms, each with the hosts it is run on
Pairs ==
    { << Linux, << "webgl", "webgl" >> >>,
      << Linux, << "windows", "windows" >> >>,
      << Linux, << "android", "windows" >> >>,
      << MacWithSdk, << "android", "webgl" >> >>,
      << MacWithSdk, << "mac", "ios" >> >>,
      << Linux, << "ios", "webgl" >> >>,
      << Linux, << "linux", "webgl" >> >>,
      << Linux, << "windows", "linux" >> >> }

\* the runs: a host and the batch call made on it
Runs ==
    { [ env |-> e,
        call |-> [ mode |-> "all", platforms |-> PLATFORMS, pre_build_hook |-> None,
                   skip_hook |-> FALSE ] ] : e \in Hosts }
    \cup
    { [ env |-> e, call |-> Selected(r, h, s) ] :
        e \in Hosts, r \in Singles, h \in HookNames, s \in BOOLEAN }
    \cup
    { [ env |-> pr[1], call |-> Selected(pr[2], h, FALSE) ] :
        pr \in Pairs, h \in HookNames }
    \cup
    { [ env |-> Linux, call |-> Selected(<< "linux", "windows", "webgl" >>, None, FALSE) ] }

\* UnityAutoBuilder.build_webgl_with_upload / build_windows_with_upload: one
\* direct call of build_platform followed by the upload decision
WithUpload(p, h, s) ==
    [ mode |-> "with_upload", platforms |-> << p >>, pre_build_hook |-> h, skip_hook |-> s ]

UploadRuns ==
    { [ env |-> Linux, call |-> WithUpload(p, h, s) ] :
        p \in { "webgl", "windows" }, h \in HookNames, s \in BOOLEAN }

InitOf(runs) ==
    /\ \E run \in runs : env = run.env /\ call = run.call
    /\ config = InitialConfig
    /\ ncalls = 1
    /\ prior = << >>
    /\ ret = NoReturn
    /\ clock = 0
    /\ fs = [ p \in {} |-> NoReport ]
    /\ dirs = {}
    /\ build_results = << >>
    /\ success_count = 0
    /\ idx = 1
    /\ pc = "loop"
    /\ exc = None
    /\ platform_name = None
    /\ unity_output_path = NoPath
    /\ final_output_path = NoPath
    /\ hook_to_use = None
    /\ returncode = 0
    /\ build_summary = NoSummary
    /\ build_succeeded = FALSE
    /\ items = {}
    /\ item = NoPath
    /\ spawned = {}
    /\ fresh = {}
    /\ seen = NothingSeen
    /\ hook_outcome = None
    /\ eager_dir = NoPath
    /\ caught = NotCaught
    /\ nbuilds = 0

\* WebGLFTPUploader.__init__ (line 35: self.ftp = None), upload_webgl_build not
\* called yet
UploaderIdle ==
    /\ ftp = None
    /\ sock = "none"
    /\ fpc = "idle"
    /\ remaining = 0
    /\ uploaded_count = 0
    /\ fret = None

NoUpload == UploaderIdle /\ ftp_use_tls = FALSE /\ ftp_overwrite = TRUE /\ nfiles = 0

Init == InitOf(Runs) /\ NoUpload

-----------------------------------------------------------------------------
(* Filesystem operations *)

Content(build, report) == [ build |-> build, report |-> report ]

Write(f, p, c) == [ q \in DOMAIN f \cup { p } |-> IF q = p THEN c ELSE f[q] ]

\* Path.unlink / shutil.rmtree of an existing entry
RemoveEntry(f, p) == [ q \in DOMAIN f \ { p } |-> f[q] ]

\* shutil.move(src, dst) that succeeds, dst not existing
MoveEntry(f, src, dst) == Write(RemoveEntry(f, src), dst, f[src])

\* A filesystem call either succeeds or raises OSError.
FsOutcomes == { "ok", "OSError" }

\* shutil.move inside <project_root>/Builds is an os.rename: it moves or raises
\* leaving everything as it was.
MoveOutcomes == { "ok", "OSError" }

-----------------------------------------------------------------------------
(* Control flow of one attempt inside the batch loop *)

\* where the batch loop goes after build_platform returned
AfterAttempt(returned) == "loop"

\* mutant: every attempt is counted as a success
Return_CountsEvery(returned) ==
    /\ idx' = idx + 1
    /\ success_count' = success_count + 1
    /\ pc' = AfterAttempt(returned)

\* build_platform returns: the loop counts a True and goes to the next platform
Return(returned) ==
    /\ idx' = idx + 1
    /\ success_count' = IF returned THEN success_count + 1 ELSE success_count
    /\ pc' = AfterAttempt(returned)

\* mutant: the exception is swallowed and the attempt recorded as a success
Caught_Swallowed(e) ==
    /\ build_results' =
           Append(build_results, Result(platform_name, "success", None, final_output_path))
    /\ caught' = [ at |-> pc, e |-> e ]
    /\ Return(TRUE)

\* "except Exception as e" of build_platform, lines 378-386
Caught(e) ==
    /\ build_results' = Append(build_results, Result(platform_name, "error", e, NoPath))
    /\ caught' = [ at |-> pc, e |-> e ]
    /\ Return(FALSE)

\* an exception raised outside the try block leaves build_platform and the batch
Raise(e) ==
    /\ pc' = "raised"
    /\ exc' = e

\* line 163: pre_build_hook if pre_build_hook else self.config.pre_build_hook
NeedsConfigHook(pre_build_hook) == pre_build_hook = None

\* mutant: skip_hook is ignored
ShouldRunHook_IgnoresSkip(hook, skip_hook) == hook # None

\* line 164: if hook_to_use and not skip_hook
ShouldRunHook(hook, skip_hook) == hook # None /\ ~skip_hook

-----------------------------------------------------------------------------
(* The batch loop: build_all_platforms / build_selected_platforms *)

BatchReturn ==
    /\ pc = "loop"
    /\ call.mode \in { "all", "selected" }
    /\ idx > Len(call.platforms)
    /\ pc' = "returned"
    /\ UNCHANGED << uploader, env, config, ncalls, prior, ret, call, clock, fs, dirs, build_results, success_count, idx, exc,
                    locals, caught, nbuilds >>

\* build_selected_platforms, lines 417-421: a name outside PLATFORMS is printed
SkipUnknown ==
    /\ pc = "loop"
    /\ idx <= Len(call.platforms)
    /\ call.mode = "selected"
    /\ call.platforms[idx] \notin KnownPlatforms
    /\ idx' = idx + 1
    /\ UNCHANGED << uploader, env, config, ncalls, prior, ret, call, clock, fs, dirs, build_results, success_count, pc, exc,
                    locals, caught, nbuilds >>

\* the call of build_platform for the next platform of the list
EnterBuildPlatform ==
    /\ pc = "loop"
    /\ idx <= Len(call.platforms)
    /\ call.platforms[idx] \in KnownPlatforms
    /\ platform_name' = call.platforms[idx]
    /\ unity_output_path' = NoPath
    /\ final_output_path' = NoPath
    /\ hook_to_use' = None
    /\ returncode' = 0
    /\ build_summary' = NoSummary
    /\ build_succeeded' = FALSE
    /\ items' = {}
    /\ item' = NoPath
    /\ spawned' = {}
    /\ fresh' = {}
    /\ seen' = NothingSeen
    /\ hook_outcome' = None
    /\ eager_dir' = NoPath
    /\ caught' = NotCaught
    /\ pc' = "check"
    /\ UNCHANGED << uploader, env, config, ncalls, prior, ret, call, clock, fs, dirs, build_results, success_count, idx, exc,
                    nbuilds >>

\* mutant: the availability gate is missing
IsAvailable_Always(r) == TRUE

\* line 142: "if not available" lets the attempt go on only when available
IsAvailable(r) == r[1]

\* build_platform, lines 140-149
CheckAvailable ==
    /\ pc = "check"
    /\ LET r == CheckPlatformAvailable(platform_name)
       IN  IF IsAvailable(r)
           THEN /\ pc' = "paths"
                /\ UNCHANGED << build_results, success_count, idx, caught >>
           ELSE /\ build_results' =
                       Append(build_results, Result(platform_name, "skipped", r[2], NoPath))
                /\ caught' = caught
                /\ Return(FALSE)
    /\ UNCHANGED << uploader, env, config, ncalls, prior, ret, call, clock, fs, dirs, exc, locals, nbuilds >>

\* build_platform, lines 153-157; get_build_output_path creates the directory
ResolvePaths ==
    /\ pc = "paths"
    /\ \E mk \in FsOutcomes :
          IF mk = "ok"
          THEN /\ unity_output_path' =
                      GetUnityOutputPath(platform_name, Extension[platform_name])
               /\ final_output_path' =
                      GetBuildOutputPath(platform_name, Extension[platform_name], clock)
               /\ dirs' = dirs \cup { Parent(final_output_path') }
               /\ eager_dir' = Parent(final_output_path')
               /\ pc' = "hook"
               /\ exc' = exc
          ELSE /\ Raise(mk)
               /\ UNCHANGED << unity_output_path, final_output_path, dirs, eager_dir >>
    /\ UNCHANGED << uploader, env, config, ncalls, prior, ret, call, clock, fs, build_results, success_count, idx,
                    platform_name, hook_to_use, returncode, build_summary,
                    build_succeeded, items, item, spawned, fresh, seen, hook_outcome,
                    caught, nbuilds >>

\* build_platform, lines 163-164
ChooseHook ==
    /\ pc = "hook"
    /\ IF NeedsConfigHook(call.pre_build_hook)
       THEN \* Config has no pre_build_hook attribute
            IF "pre_build_hook" \in ConfigAttrs
            THEN /\ pc' = "build"
                 /\ UNCHANGED << hook_to_use, exc >>
            ELSE /\ Raise("AttributeError")
                 /\ UNCHANGED hook_to_use
       ELSE /\ hook_to_use' = call.pre_build_hook
            /\ pc' = IF ShouldRunHook(hook_to_use', call.skip_hook)
                     THEN "run_hook" ELSE "build"
            /\ exc' = exc
    /\ UNCHANGED << uploader, env, config, ncalls, prior, ret, call, clock, fs, dirs, build_results, success_count, idx,
                    platform_name, unity_output_path, final_output_path, returncode,
                    build_summary, build_succeeded, items, item, spawned, fresh, seen,
                    hook_outcome, eager_dir, caught, nbuilds >>

HookOutcomes == { "ok", "nonzero", "timeout", "spawn_error" }

\* mutant: a hook that timed out counts as run
HookSuccess_TimeoutPasses(out) == out \in { "ok", "timeout" }

\* _execute_pre_build_hook, lines 503-530: True only for exit code 0
HookSuccess(out) == out = "ok"

\* _execute_pre_build_hook and build_platform, lines 166-174
ExecutePreBuildHook ==
    /\ pc = "run_hook"
    /\ \E out \in HookOutcomes :
          /\ spawned' = IF out = "spawn_error" THEN spawned ELSE spawned \cup { "hook" }
          /\ hook_outcome' = out
          /\ IF HookSuccess(out)
             THEN /\ pc' = "build"
                  /\ UNCHANGED << build_results, success_count, idx, caught >>
             ELSE /\ build_results' =
                         Append(build_results,
                                Result(platform_name, "failed", "Pre-build hook failed", NoPath))
                  /\ caught' = caught
                  /\ Return(FALSE)
    /\ UNCHANGED << uploader, env, config, ncalls, prior, ret, call, clock, fs, dirs, exc, platform_name, unity_output_path,
                    final_output_path, hook_to_use, returncode, build_summary,
                    build_succeeded, items, item, fresh, seen, eager_dir, nbuilds >>

-----------------------------------------------------------------------------
(* The external build tool *)

\* what one run of the build tool leaves in the version folder: the artifact
\* under the name art (with UnityPlayer.dll beside it on windows) and the
\* self-report rep, each only if written
ToolWrites(platform, art, rep, n) ==
    LET version_dir == Dir(PLATFORM_DIR_NAMES[platform], << project_version >>)
        arts == IF art = None THEN {}
                ELSE { Entry(version_dir, << art, Extension[platform] >>) }
                     \cup (IF platform = "windows"
                           THEN { Entry(version_dir, PLAYER_NAME) } ELSE {})
        reps == IF rep = NoReport THEN {} ELSE { Entry(version_dir, SUMMARY_NAME) }
    IN  [ p \in arts \cup reps |->
            IF p \in reps THEN Content(n, rep) ELSE Content(n, NoReport) ]

Overlay(f, g) == [ p \in DOMAIN f \cup DOMAIN g |-> IF p \in DOMAIN g THEN g[p] ELSE f[p] ]

\* build_platform, lines 176-205: subprocess.run of the build, no timeout
RunBuild ==
    /\ pc = "build"
    /\ \/ \* the process cannot be spawned: subprocess.run raises
          /\ Caught("spawn_error")
          /\ UNCHANGED << fs, dirs, returncode, spawned, fresh, nbuilds >>
       \/ \E rc \in { 0, 1 }, art \in { None, project_name, OtherName },
             rep \in Summaries \cup { NoReport } :
             LET w == ToolWrites(platform_name, art, rep, nbuilds + 1)
             IN  /\ fs' = Overlay(fs, w)
                 /\ dirs' = dirs \cup { Parent(p) : p \in DOMAIN w }
                 /\ fresh' = DOMAIN w
                 /\ returncode' = rc
                 /\ spawned' = spawned \cup { "build" }
                 /\ nbuilds' = nbuilds + 1
                 /\ pc' = "reconcile"
                 /\ UNCHANGED << build_results, success_count, idx, caught >>
    /\ UNCHANGED << uploader, env, config, ncalls, prior, ret, call, clock, exc, platform_name, unity_output_path,
                    final_output_path, hook_to_use, build_summary, build_succeeded,
                    items, item, seen, hook_outcome, eager_dir >>

-----------------------------------------------------------------------------
(* Reconciliation: build_platform, lines 207-246 *)

\* mutant: the reported name is written back to the configuration
ConfigAfterDrift_WrittenBack(cfg, summary) ==
    IF summary.json = "object" /\ summary.product_name # "absent"
    THEN [ cfg EXCEPT !.project_name = summary.product_name ] ELSE cfg

\* lines 218-237: the reported name only replaces the two local paths; no
\* attribute of self.config is assigned
ConfigAfterDrift(cfg, summary) == cfg

\* line 218-220: the report names a product other than the configured one
NameDrifted(summary) ==
    summary.product_name # "absent" /\ summary.product_name # config.project_name

\* mutant: relocation is entered whatever the reconciled outcome
AfterReconcile_AlwaysRelocates(succeeded) == "relocate"

\* line 246: "if build_succeeded" leads to the relocation, the else of line
\* 337 to the failed record
AfterReconcile(succeeded) == IF succeeded THEN "relocate" ELSE "failed"

\* mutant: a report of success is believed only with exit code 0
BuildSucceeded_NeedsExitCode(summary, rc, path) ==
    IF Truthy(summary) THEN SummaryStatusSuccess(summary) /\ rc = 0
    ELSE FallbackSucceeded(rc, path)

\* build_succeeded as lines 212-244 compute it
BuildSucceeded(summary, rc, path) ==
    IF Truthy(summary) THEN SummaryStatusSuccess(summary)
    ELSE FallbackSucceeded(rc, path)

Reconcile ==
    /\ pc = "reconcile"
    /\ build_summary' = ReadBuildSummary(platform_name)
    /\ config' = ConfigAfterDrift(config, build_summary')
    /\ IF build_summary'.json = "nonobject"
       THEN \* build_summary.get on a value that is no dict
            /\ Caught("AttributeError")
            /\ UNCHANGED << unity_output_path, final_output_path, build_succeeded, dirs >>
       ELSE IF Truthy(build_summary') /\ NameDrifted(build_summary')
       THEN \E mk \in FsOutcomes :
              IF mk = "ok"
              THEN /\ unity_output_path' =
                          GetUnityOutputPathWithName(platform_name,
                              build_summary'.product_name, Extension[platform_name])
                   /\ final_output_path' =
                          DriftFinalPath(platform_name, build_summary'.product_name,
                                         Extension[platform_name], clock)
                   /\ dirs' = dirs \cup { Parent(final_output_path') }
                   /\ build_succeeded' =
                          BuildSucceeded(build_summary', returncode, unity_output_path')
                   /\ pc' = AfterReconcile(build_succeeded')
                   /\ UNCHANGED << build_results, success_count, idx, caught >>
              ELSE /\ Caught(mk)
                   /\ build_succeeded' = SummaryStatusSuccess(build_summary')
                   /\ unity_output_path' =
                          GetUnityOutputPathWithName(platform_name,
                              build_summary'.product_name, Extension[platform_name])
                   /\ UNCHANGED << final_output_path, dirs >>
       ELSE /\ build_succeeded' =
                   BuildSucceeded(build_summary', returncode, unity_output_path)
            /\ pc' = AfterReconcile(build_succeeded')
            /\ UNCHANGED << unity_output_path, final_output_path, dirs,
                            build_results, success_count, idx, caught >>
    /\ seen' = [ summary |-> Exists(SummaryPath(platform_name)),
                 output |-> Exists(unity_output_path') ]
    /\ UNCHANGED << uploader, env, ncalls, prior, ret, call, clock, fs, exc, platform_name, hook_to_use, returncode,
                    items, item, spawned, fresh, hook_outcome, eager_dir, nbuilds >>

\* build_platform, lines 337-376
RecordFailed ==
    /\ pc = "failed"
    /\ build_results' = Append(build_results, Result(platform_name, "failed", None, NoPath))
    /\ Return(FALSE)
    /\ UNCHANGED << uploader, env, config, ncalls, prior, ret, call, clock, fs, dirs, exc, locals, caught, nbuilds >>

-----------------------------------------------------------------------------
(* Relocation: build_platform, lines 246-298 *)

\* lines 251-255: the scattered-output branch is taken
ScatteredCase(platform, version_dir) == platform = "windows" /\ version_dir \in dirs

\* lines 263-267, 276-280, 284-288: the destination is cleared when it exists
MustClear(dest) == Exists(dest)

\* mutant: a move that fails has already removed its source
AfterMove_DropsSource(f, src, dst, out) ==
    IF out = "ok" THEN MoveEntry(f, src, dst) ELSE RemoveEntry(f, src)

\* mutant: the artifact is copied, not moved
AfterMove_Copies(f, src, dst, out) ==
    IF out = "ok" THEN Write(f, dst, f[src]) ELSE f

\* the filesystem after a shutil.move with the given outcome
AfterMove(f, src, dst, out) ==
    IF out = "ok" THEN MoveEntry(f, src, dst) ELSE f

\* mutant: the version folder is never removed
MustRemoveFolder_Never(version_dir) == FALSE

\* lines 271, 295: the version folder is removed when it exists and is empty
MustRemoveFolder(version_dir) == version_dir \in dirs /\ Listing(version_dir) = {}

BeginRelocate ==
    /\ pc = "relocate"
    /\ IF unity_output_path = final_output_path
       THEN /\ pc' = "size"
            /\ UNCHANGED << dirs, items, build_results, success_count, idx, caught >>
       ELSE IF ScatteredCase(platform_name, Parent(unity_output_path))
       THEN \E mk \in FsOutcomes :
              IF mk = "ok"
              THEN /\ dirs' = dirs \cup { Parent(final_output_path) }
                   /\ items' = Listing(Parent(unity_output_path))
                   /\ pc' = "win_iter"
                   /\ UNCHANGED << build_results, success_count, idx, caught >>
              ELSE /\ Caught(mk)
                   /\ UNCHANGED << dirs, items >>
       ELSE /\ pc' = "clear_final"
            /\ UNCHANGED << dirs, items, build_results, success_count, idx, caught >>
    /\ UNCHANGED << uploader, env, config, ncalls, prior, ret, call, clock, fs, exc, platform_name, unity_output_path,
                    final_output_path, hook_to_use, returncode, build_summary,
                    build_succeeded, item, spawned, fresh, seen, hook_outcome, eager_dir,
                    nbuilds >>

\* lines 261-267: the loop takes the next entry and clears its destination
WinNextItem ==
    /\ pc = "win_iter"
    /\ \E it \in items :
          LET dest == Entry(Parent(final_output_path), it.name)
          IN  /\ item' = it
              /\ items' = items \ { it }
              /\ IF MustClear(dest)
                 THEN \E rm \in FsOutcomes :
                        IF rm = "ok"
                        THEN /\ fs' = RemoveEntry(fs, dest)
                             /\ pc' = "win_move"
                             /\ UNCHANGED << build_results, success_count, idx, caught >>
                        ELSE /\ Caught(rm)
                             /\ fs' = fs
                 ELSE /\ pc' = "win_move"
                      /\ UNCHANGED << fs, build_results, success_count, idx, caught >>
    /\ UNCHANGED << uploader, env, config, ncalls, prior, ret, call, clock, dirs, exc, platform_name, unity_output_path,
                    final_output_path, hook_to_use, returncode, build_summary,
                    build_succeeded, spawned, fresh, seen, hook_outcome, eager_dir,
                    nbuilds >>

\* line 268: shutil.move(str(item), str(dest))
WinMoveItem ==
    /\ pc = "win_move"
    /\ LET dest == Entry(Parent(final_output_path), item.name)
       IN  \E out \in MoveOutcomes :
             /\ fs' = AfterMove(fs, item, dest, out)
             /\ IF out = "ok"
                THEN /\ pc' = "win_iter"
                     /\ UNCHANGED << build_results, success_count, idx, caught >>
                ELSE Caught("OSError")
    /\ UNCHANGED << uploader, env, config, ncalls, prior, ret, call, clock, dirs, exc, platform_name, unity_output_path,
                    final_output_path, hook_to_use, returncode, build_summary,
                    build_succeeded, items, item, spawned, fresh, seen, hook_outcome,
                    eager_dir, nbuilds >>

\* lines 276-280 and 284-288
ClearFinal ==
    /\ pc = "clear_final"
    /\ IF MustClear(final_output_path)
       THEN \E rm \in FsOutcomes :
              IF rm = "ok"
              THEN /\ fs' = RemoveEntry(fs, final_output_path)
                   /\ pc' = "move"
                   /\ UNCHANGED << build_results, success_count, idx, caught >>
              ELSE /\ Caught(rm)
                   /\ fs' = fs
       ELSE /\ pc' = "move"
            /\ UNCHANGED << fs, build_results, success_count, idx, caught >>
    /\ UNCHANGED << uploader, env, config, ncalls, prior, ret, call, clock, dirs, exc, locals, nbuilds >>

\* lines 281 and 291: shutil.move(str(unity_output_path), str(final_output_path))
MoveArtifact ==
    /\ pc = "move"
    /\ IF ~Exists(unity_output_path)
       THEN /\ Caught("FileNotFoundError")
            /\ fs' = fs
       ELSE \E out \in MoveOutcomes :
              /\ fs' = AfterMove(fs, unity_output_path, final_output_path, out)
              /\ IF out = "ok"
                 THEN /\ pc' = IF platform_name = "windows" THEN "size" ELSE "cleanup"
                      /\ UNCHANGED << build_results, success_count, idx, caught >>
                 ELSE Caught("OSError")
    /\ UNCHANGED << uploader, env, config, ncalls, prior, ret, call, clock, dirs, exc, locals, nbuilds >>

\* lines 270-273: the end of the windows loop, then the cleanup
WinCleanup ==
    /\ pc = "win_iter"
    /\ items = {}
    /\ pc' = "cleanup"
    /\ UNCHANGED << uploader, env, config, ncalls, prior, ret, call, clock, fs, dirs, build_results, success_count, idx, exc,
                    locals, caught, nbuilds >>

\* lines 270-273 and 293-297
CleanupVersionFolder ==
    /\ pc = "cleanup"
    /\ IF MustRemoveFolder(Parent(unity_output_path))
       THEN \E rm \in FsOutcomes :
              IF rm = "ok"
              THEN /\ dirs' = dirs \ { Parent(unity_output_path) }
                   /\ pc' = "size"
                   /\ UNCHANGED << build_results, success_count, idx, caught >>
              ELSE /\ Caught(rm)
                   /\ dirs' = dirs
       ELSE /\ pc' = "size"
            /\ UNCHANGED << dirs, build_results, success_count, idx, caught >>
    /\ UNCHANGED << uploader, env, config, ncalls, prior, ret, call, clock, fs, exc, locals, nbuilds >>

\* lines 300-308: the size of what is at the final location, every file
\* weighing one megabyte (two halves)
ComputedSize(platform, final) ==
    IF platform = "windows" THEN 2 * Cardinality(Listing(Parent(final)))
    ELSE IF Exists(final) THEN 2 ELSE 0

\* mutant: the computed size is kept
SizeMb_Computed(summary, computed) == computed

\* lines 318-319: the size the report states replaces the computed one
SizeMb(summary, computed) ==
    IF Truthy(summary) /\ summary.build_size_mb # << >>
    THEN summary.build_size_mb[1] ELSE computed

\* lines 299-336: the size is computed and the success record appended
RecordSuccess ==
    /\ pc = "size"
    /\ \E st \in FsOutcomes :
          IF st = "ok"
          THEN /\ build_results' =
                      Append(build_results,
                             Result(platform_name, "success", None, final_output_path)
                             @@ [ size_mb |->
                                    SizeMb(build_summary,
                                           ComputedSize(platform_name, final_output_path)) ])
               /\ caught' = caught
               /\ Return(TRUE)
          ELSE Caught(st)
    /\ UNCHANGED << uploader, env, config, ncalls, prior, ret, call, clock, fs, dirs, exc, locals, nbuilds >>

\* a minute boundary passes before the clock is read (lines 189 and 229)
Tick ==
    /\ pc \in { "paths", "reconcile" }
    /\ clock < MaxClock
    /\ clock' = clock + 1
    /\ UNCHANGED << uploader, env, config, ncalls, prior, ret, call, fs, dirs, build_results, success_count, idx, pc, exc,
                    locals, caught, nbuilds >>

Next ==
    \/ BatchReturn
    \/ SkipUnknown
    \/ EnterBuildPlatform
    \/ CheckAvailable
    \/ ResolvePaths
    \/ ChooseHook
    \/ ExecutePreBuildHook
    \/ RunBuild
    \/ Reconcile
    \/ RecordFailed
    \/ BeginRelocate
    \/ WinNextItem
    \/ WinMoveItem
    \/ WinCleanup
    \/ ClearFinal
    \/ MoveArtifact
    \/ CleanupVersionFolder
    \/ RecordSuccess
    \/ Tick

Spec == Init /\ [][Next]_vars

-----------------------------------------------------------------------------
(* Progress of a batch *)

LiveRuns ==
    { [ env |-> Linux,
        call |-> Selected(<< "webgl", "windows" >>, "BuildHooks.Prepare", FALSE) ],
      [ env |-> Linux,
        call |-> Selected(<< "linux", "android" >>, "BuildHooks.Prepare", FALSE) ] }

InitLive == InitOf(LiveRuns) /\ NoUpload

\* mutant: the hook is waited for like the main build, without a timeout
HookWaitBounded_NoTimeout == FALSE

\* line 504: subprocess.run(cmd, ..., timeout=60): the wait for the hook ends
\* with the process or with TimeoutExpired
HookWaitBounded == TRUE

\* the steps the interpreter takes by itself
OwnStep ==
    \/ BatchReturn
    \/ SkipUnknown
    \/ EnterBuildPlatform
    \/ CheckAvailable
    \/ ResolvePaths
    \/ ChooseHook
    \/ Reconcile
    \/ RecordFailed
    \/ BeginRelocate
    \/ WinNextItem
    \/ WinMoveItem
    \/ WinCleanup
    \/ ClearFinal
    \/ MoveArtifact
    \/ CleanupVersionFolder
    \/ RecordSuccess

\* the program keeps running; the wait for the hook ends because of its
\* timeout; the wait for the main build (lines 194-205, no timeout) ends only
\* under the proviso that the build process exits
LiveSpec ==
    /\ InitLive /\ [][Next]_vars
    /\ WF_vars(OwnStep)
    /\ WF_vars(HookWaitBounded /\ ExecutePreBuildHook)
    /\ WF_vars(RunBuild)

-----------------------------------------------------------------------------
(* Several batch calls on one PlatformBuilder *)

\* the first call of a series, and the calls that may follow it
FirstCalls ==
    { Selected(<< "windows", "linux" >>, "BuildHooks.Prepare", FALSE),
      Selected(<< "webgl" >>, "BuildHooks.Prepare", FALSE) }

LaterCalls ==
    { Selected(<< "android" >>, "BuildHooks.Prepare", FALSE),
      Selected(<< "linux" >>, "BuildHooks.Prepare", FALSE) }

InitCalls == Init /\ env = Linux /\ call \in FirstCalls

\* mutant: a batch call starts from an empty list
ResultsAtCallStart_Cleared(results) == << >>

\* lines 388-426: a batch call assigns nothing to self.build_results, which
\* only __init__ (line 75) creates
ResultsAtCallStart(results) == results

\* build_all_platforms / build_selected_platforms is called again on the
\* PlatformBuilder whose earlier call returned (lines 393-394, 413-414)
CallAgain ==
    /\ pc = "returned"
    /\ ncalls < MaxCalls
    /\ \E c \in LaterCalls : call' = c
    /\ ncalls' = ncalls + 1
    /\ build_results' = ResultsAtCallStart(build_results)
    /\ prior' = build_results'
    /\ success_count' = 0
    /\ idx' = 1
    /\ pc' = "loop"
    /\ UNCHANGED << uploader, env, config, ret, clock, fs, dirs, exc, locals, caught, nbuilds >>

NextCalls == Next \/ CallAgain

SpecCalls == InitCalls /\ [][NextCalls]_vars

\* get_latest_build_path, lines 534-574: the directories under
\* Builds/<PLATFORM_DIR_NAMES[platform]> it chooses the newest from
LatestBuildCandidates(platform) ==
    { d \in dirs : d.dir = PLATFORM_DIR_NAMES[platform] }

\* _show_build_summary, lines 482-483: the totals it prints
ShowBuildSummary(results, count) == [ total |-> Len(results), successful |-> count ]

-----------------------------------------------------------------------------
(* UnityAutoBuilder.build_webgl_with_upload / build_windows_with_upload *)

BUILD_FAILED == [ webgl |-> "WebGL build failed", windows |-> "Windows build failed" ]

\* build_platform has returned to the wrapper
BuildReturned == pc = "loop" /\ call.mode = "with_upload" /\ idx > Len(call.platforms)

\* mutant: the wrapper reports the upload's outcome
WrapperSuccess_NeedsUpload(build_success, upload_success) == build_success /\ upload_success

\* builder.py lines 87-102, 121-136: the first element of every returned pair
WrapperSuccess(build_success, upload_success) == build_success

\* builder.py lines 87-88, 121-122: "if not build_success: return False, ..."
ReturnBuildFailed ==
    /\ BuildReturned
    /\ success_count = 0
    /\ ret' = [ success |-> WrapperSuccess(FALSE, FALSE),
                message |-> BUILD_FAILED[call.platforms[1]], upload |-> "none" ]
    /\ pc' = "done"
    /\ UNCHANGED << uploader, env, config, ncalls, prior, call, clock, fs, dirs, build_results,
                    success_count, idx, exc, locals, caught, nbuilds >>

\* builder.py lines 91-93, 125-127: the uploader is not configured
ReturnNotConfigured ==
    /\ BuildReturned
    /\ success_count = 1
    /\ ret' = [ success |-> WrapperSuccess(TRUE, FALSE),
                message |-> "Build succeeded, upload not configured", upload |-> "none" ]
    /\ pc' = "done"
    /\ UNCHANGED << uploader, env, config, ncalls, prior, call, clock, fs, dirs, build_results,
                    success_count, idx, exc, locals, caught, nbuilds >>

\* builder.py lines 70-79, 97-102, 104-113, 131-136: the uploader is configured;
\* without a directory for get_latest_build_path the upload fails, with one the
\* uploader's own outcome decides
ReturnAfterUpload ==
    /\ BuildReturned
    /\ success_count = 1
    /\ \E upload_success \in BOOLEAN :
          /\ LatestBuildCandidates(call.platforms[1]) = {} => ~upload_success
          /\ ret' = [ success |-> WrapperSuccess(TRUE, upload_success),
                      message |-> IF upload_success THEN "Build and upload succeeded"
                                  ELSE "Build succeeded, upload failed",
                      upload |-> IF upload_success THEN "succeeded" ELSE "failed" ]
    /\ pc' = "done"
    /\ UNCHANGED << uploader, env, config, ncalls, prior, call, clock, fs, dirs, build_results,
                    success_count, idx, exc, locals, caught, nbuilds >>

InitUpload == InitOf(UploadRuns) /\ NoUpload

NextUpload ==
    \/ EnterBuildPlatform
    \/ CheckAvailable
    \/ ResolvePaths
    \/ ChooseHook
    \/ ExecutePreBuildHook
    \/ RunBuild
    \/ Reconcile
    \/ RecordFailed
    \/ BeginRelocate
    \/ WinNextItem
    \/ WinMoveItem
    \/ WinCleanup
    \/ ClearFinal
    \/ MoveArtifact
    \/ CleanupVersionFolder
    \/ RecordSuccess
    \/ Tick
    \/ ReturnBuildFailed
    \/ ReturnNotConfigured
    \/ ReturnAfterUpload

SpecUpload == InitUpload /\ [][NextUpload]_vars

-----------------------------------------------------------------------------
(* WebGLFTPUploader.upload_webgl_build *)

FtpReturn(success, count) == [ success |-> success, count |-> count ]

\* lines 156-157: "if not self.connect(): return False, 0" returns at once
AfterConnectFailed == "returned"

\* connect() returned False (lines 81-83): upload_webgl_build returns (False, 0)
ConnectFailed ==
    /\ fret' = FtpReturn(FALSE, 0)
    /\ fpc' = AfterConnectFailed

\* upload_webgl_build is called and enters connect() (lines 156, 51-52)
CallUpload ==
    /\ fpc = "idle"
    /\ fpc' = "create"
    /\ UNCHANGED << ftp, sock, ftp_use_tls, ftp_overwrite, nfiles, remaining,
                    uploaded_count, fret, builder >>

\* lines 54-63, 71: the client object is created and assigned to self.ftp;
\* with TLS, building the SSL context before it may raise
CreateClient ==
    /\ fpc = "create"
    /\ \/ /\ ftp' = IF ftp_use_tls THEN "FTP_TLS" ELSE "FTP"
          /\ fpc' = "connect"
          /\ UNCHANGED fret
       \/ /\ ftp_use_tls
          /\ ConnectFailed
          /\ UNCHANGED ftp
    /\ UNCHANGED << sock, ftp_use_tls, ftp_overwrite, nfiles, remaining, uploaded_count,
                    builder >>

\* lines 64, 72: self.ftp.connect(host, port, timeout=30)
Connect ==
    /\ fpc = "connect"
    /\ \/ /\ sock' = "open"
          /\ fpc' = "login"
          /\ UNCHANGED fret
       \/ /\ ConnectFailed
          /\ UNCHANGED sock
    /\ UNCHANGED << ftp, ftp_use_tls, ftp_overwrite, nfiles, remaining, uploaded_count,
                    builder >>

\* lines 65, 73: self.ftp.login(username, password)
Login ==
    /\ fpc = "login"
    /\ \/ /\ fpc' = IF ftp_use_tls THEN "prot_p" ELSE "try"
          /\ UNCHANGED fret
       \/ ConnectFailed
    /\ UNCHANGED << ftp, sock, ftp_use_tls, ftp_overwrite, nfiles, remaining,
                    uploaded_count, builder >>

\* line 67: self.ftp.prot_p()
ProtP ==
    /\ fpc = "prot_p"
    /\ \/ /\ fpc' = "try"
          /\ UNCHANGED fret
       \/ ConnectFailed
    /\ UNCHANGED << ftp, sock, ftp_use_tls, ftp_overwrite, nfiles, remaining,
                    uploaded_count, builder >>

\* lines 159-177: the base directory is ensured and the files are collected;
\* an exception other than error_perm from cwd (line 108) reaches line 219
EnsureAndCollect ==
    /\ fpc = "try"
    /\ \/ /\ fpc' = "upload"
          /\ remaining' = nfiles
          /\ uploaded_count' = 0
       \/ /\ fpc' = "except"
          /\ UNCHANGED << remaining, uploaded_count >>
    /\ UNCHANGED << ftp, sock, ftp_use_tls, ftp_overwrite, nfiles, fret, builder >>

\* lines 199-203: a file counts when it was uploaded, or when it failed and
\* overwriting is off
Counted(success) == success \/ ~ftp_overwrite

\* lines 186-203: one turn of the upload loop; local_file.stat() (line 187)
\* may raise, upload_file (lines 124-152) returns True or False
UploadOne ==
    /\ fpc = "upload"
    /\ remaining > 0
    /\ \/ \E success \in BOOLEAN :
             /\ uploaded_count' = IF Counted(success) THEN uploaded_count + 1
                                  ELSE uploaded_count
             /\ remaining' = remaining - 1
             /\ UNCHANGED fpc
       \/ /\ fpc' = "except"
          /\ UNCHANGED << remaining, uploaded_count >>
    /\ UNCHANGED << ftp, sock, ftp_use_tls, ftp_overwrite, nfiles, fret, builder >>

\* lines 206-217: return uploaded_count == len(files_to_upload), uploaded_count
ReturnCount ==
    /\ fpc = "upload"
    /\ remaining = 0
    /\ fret' = FtpReturn(uploaded_count = nfiles, uploaded_count)
    /\ fpc' = "finally"
    /\ UNCHANGED << ftp, sock, ftp_use_tls, ftp_overwrite, nfiles, remaining,
                    uploaded_count, builder >>

\* lines 219-221: "except Exception": return False, 0
UploadError ==
    /\ fpc = "except"
    /\ fret' = FtpReturn(FALSE, 0)
    /\ fpc' = "finally"
    /\ UNCHANGED << ftp, sock, ftp_use_tls, ftp_overwrite, nfiles, remaining,
                    uploaded_count, builder >>

\* lines 223-224, 85-92: disconnect(): with a client, quit() closes the
\* connection, or raises and is swallowed, the connection going with the
\* released object; self.ftp = None
Disconnect ==
    /\ fpc = "finally"
    /\ IF ftp # None
       THEN /\ \E quit \in { "closed", "released" } :
                  sock' = IF sock = "open" THEN quit ELSE sock
            /\ ftp' = None
       ELSE UNCHANGED << ftp, sock >>
    /\ fpc' = "returned"
    /\ UNCHANGED << ftp_use_tls, ftp_overwrite, nfiles, remaining, uploaded_count, fret,
                    builder >>

InitFtp ==
    /\ InitOf({ [ env |-> Linux, call |-> Selected(<< >>, None, FALSE) ] })
    /\ UploaderIdle
    /\ ftp_use_tls \in BOOLEAN
    /\ ftp_overwrite \in BOOLEAN
    /\ nfiles \in 0..MaxFiles

NextFtp ==
    \/ CallUpload
    \/ CreateClient
    \/ Connect
    \/ Login
    \/ ProtP
    \/ EnsureAndCollect
    \/ UploadOne
    \/ ReturnCount
    \/ UploadError
    \/ Disconnect

SpecFtp == InitFtp /\ [][NextFtp]_vars

TypeOK ==
    /\ pc \in { "loop", "check", "paths", "hook", "run_hook", "build", "reconcile",
                "failed", "relocate", "win_iter", "win_move", "clear_final", "move",
                "cleanup", "size", "returned", "raised", "done" }
    /\ \A p \in DOMAIN fs : Parent(p) \in dirs
    /\ idx \in 1..(Len(call.platforms) + 1)

-----------------------------------------------------------------------------
(* Properties *)

BatchOver == pc \in { "returned", "raised" }

AllKnown == \A i \in 1..Len(call.platforms) : call.platforms[i] \in KnownPlatforms

\* the number of platforms of the request whose attempt has begun
Attempted == IF pc \in { "loop", "returned" } THEN idx - 1 ELSE idx

\* an attempt has just ended with a record and no later attempt has begun
AttemptRecorded == pc \in { "loop", "returned" } /\ build_results # << >>

RelocationPcs == { "relocate", "win_iter", "win_move", "clear_final", "move",
                   "cleanup", "size" }

\* C1: in a batch over known platforms (build_all_platforms or
\* build_selected_platforms), when the batch call is over every requested
\* platform has been attempted, whatever the earlier attempts did.
C1_EveryPlatformAttempted ==
    (BatchOver /\ AllKnown) => Attempted = Len(call.platforms)

\* C2: no exception leaves build_platform: the batch call never ends by an
\* exception raised inside an attempt.
C2_NoExceptionEscapes == pc # "raised"

\* C3: when a build_selected_platforms call over known platforms is over, the
\* result list has one record per requested platform, in request order.
C3_OneRecordPerPlatform ==
    (BatchOver /\ AllKnown /\ call.mode = "selected") =>
        /\ Len(build_results) = Len(call.platforms)
        /\ \A i \in 1..Len(build_results) : build_results[i].platform = call.platforms[i]

\* C4: the output_path of a success record exists on disk when the record is
\* appended.
C4_SuccessPathExists ==
    (AttemptRecorded /\ Last(build_results).status = "success") =>
        Exists(Last(build_results).output_path)

\* the current attempt's build has run and has been reconciled
Reconciled == "build" \in spawned /\ pc # "reconcile"

\* C5 (as stated): with no self-report present, the attempt ends in success
\* iff the exit code is 0 and the expected output path exists.
C5_SuccessIffExitAndOutput ==
    (AttemptRecorded /\ Reconciled /\ ~seen.summary) =>
        (Last(build_results).status = "success" <=> (returncode = 0 /\ seen.output))

\* C5 (amended): with no self-report present, the attempt reconciles as
\* success iff the exit code is 0 and the expected output path exists; it ends
\* failed iff it did not reconcile as success, and ends in success only if it
\* did (an error during relocation gives an error record instead).
C5_FallbackTier ==
    (Reconciled /\ ~seen.summary) =>
        /\ build_succeeded <=> (returncode = 0 /\ seen.output)
        /\ pc \in { "relocate", "failed" } => seen.output = Exists(unity_output_path)
        /\ pc = "failed" => ~build_succeeded
        /\ pc \in RelocationPcs => build_succeeded
        /\ AttemptRecorded =>
              /\ Last(build_results).status \in { "success", "failed", "error" }
              /\ Last(build_results).status = "failed" <=> ~build_succeeded
              /\ Last(build_results).status = "success" => build_succeeded

\* exit code 0, nothing at the expected path, no self-report: failed
C5_Witness ==
    /\ AttemptRecorded /\ Reconciled /\ ~seen.summary
    /\ returncode = 0 /\ ~seen.output
    /\ Last(build_results).status = "failed"

\* C6: when the self-report is a JSON object, its status field alone decides
\* the reconciled outcome, whatever the exit code and whether or not the
\* artifact is there.
C6_ReportIsAuthoritative ==
    (Reconciled /\ build_summary.json = "object") =>
        /\ build_succeeded <=> (build_summary.status = "success")
        /\ pc = "failed" => build_summary.status # "success"
        /\ pc \in RelocationPcs => build_summary.status = "success"

\* a report of success is followed although the build exited non-zero
C6_Witness ==
    /\ pc = "relocate"
    /\ build_summary.json = "object" /\ build_summary.status = "success"
    /\ returncode # 0

\* C7: from the build on, through the relocation and after it, every entry
\* the build produced is at its intermediate location or at its final one.
C7_FreshArtifactKept ==
    \A p \in fresh :
        \/ Exists(p) /\ fs[p].build = nbuilds
        \/ /\ final_output_path # NoPath
           /\ LET q == Entry(Parent(final_output_path), p.name)
              IN  Exists(q) /\ fs[q].build = nbuilds

\* a relocation failed part-way: one produced entry moved, another did not
C7_Witness ==
    /\ AttemptRecorded /\ Last(build_results).status = "error"
    /\ \E p \in fresh, r \in fresh : Exists(p) /\ ~Exists(r)

\* C8: a relocation step that runs with no intermediate artifact while the
\* final destination holds one leaves the final artifact as it is and raises
\* nothing of its own: the only error it may record is a failure reported by
\* the filesystem (OSError), never a missing source.
C8_RelocationIdempotent ==
    [][ (pc \in { "relocate", "clear_final", "move", "win_iter", "win_move" }
            /\ ~seen.output /\ Exists(final_output_path)) =>
          /\ final_output_path \in DOMAIN fs'
          /\ fs'[final_output_path] = fs[final_output_path]
          /\ Len(build_results') > Len(build_results) =>
                Last(build_results').reason = "OSError" ]_vars

\* C9: after a relocation that ends in a success record nothing is left at the
\* intermediate artifact path, and an artifact that was there is at the
\* recorded output_path.
C9_IntermediateGone ==
    (AttemptRecorded /\ Last(build_results).status = "success") =>
        /\ ~Exists(unity_output_path)
        /\ seen.output => Exists(Last(build_results).output_path)

C9_Witness ==
    /\ AttemptRecorded /\ Last(build_results).status = "success"
    /\ seen.output

\* C10: a platform check_platform_available rejects gets one skipped record
\* with the reason returned, and its attempt spawns no subprocess.
C10_UnavailableIsSkipped ==
    /\ \A i \in 1..Len(build_results) :
          build_results[i].status = "skipped" =>
              /\ ~CheckPlatformAvailable(build_results[i].platform)[1]
              /\ build_results[i].reason =
                     CheckPlatformAvailable(build_results[i].platform)[2]
    /\ pc \notin { "loop", "returned", "check" } => CheckPlatformAvailable(platform_name)[1]
    /\ spawned # {} => CheckPlatformAvailable(platform_name)[1]
    /\ (AttemptRecorded /\ ~CheckPlatformAvailable(platform_name)[1]) =>
          /\ Last(build_results).status = "skipped"
          /\ Last(build_results).platform = platform_name
          /\ spawned = {}
    /\ pc \in { "loop", "returned" } =>
          Len(build_results) =
              Cardinality({ i \in 1..(idx - 1) : call.platforms[i] \in KnownPlatforms })

C10_Witness ==
    /\ AttemptRecorded
    /\ Last(build_results).status = "skipped"
    /\ Last(build_results).reason = "ANDROID_HOME environment variable not set"
    /\ spawned = {}

\* the hook subprocess of the current attempt failed
HookFailed == hook_outcome \in { "nonzero", "timeout", "spawn_error" }

\* C11: when the pre-build hook times out, exits non-zero or cannot be
\* spawned, the attempt ends at once with a failed record whose reason is
\* "Pre-build hook failed", and the attempt never spawns the main build.
C11_HookFailureAborts ==
    HookFailed =>
        /\ AttemptRecorded
        /\ Last(build_results).platform = platform_name
        /\ Last(build_results).status = "failed"
        /\ Last(build_results).reason = "Pre-build hook failed"
        /\ "build" \notin spawned

\* the hook was spawned and timed out
C11_Witness ==
    /\ hook_outcome = "timeout" /\ "hook" \in spawned
    /\ AttemptRecorded /\ Last(build_results).status = "failed"

\* the steps of lines 246-298
RelocationSteps == RelocationPcs \ { "size" }

\* C12: when a filesystem error is raised during the relocation of a build
\* that reconciled as success, the attempt ends with one record, whose status
\* is failed or error and never success.
C12_RelocationErrorNeverSuccess ==
    caught.at \in RelocationSteps =>
        /\ build_succeeded
        /\ AttemptRecorded
        /\ Last(build_results).platform = platform_name
        /\ Last(build_results).status \in { "failed", "error" }
        /\ Len(build_results) =
              Cardinality({ i \in 1..(idx - 1) : call.platforms[i] \in KnownPlatforms })

\* the move of the artifact raised
C12_Witness ==
    /\ caught = [ at |-> "move", e |-> "OSError" ]
    /\ build_succeeded
    /\ Last(build_results).status = "error"

\* the self-report names a product other than the configured one
Drifted == Truthy(build_summary) /\ NameDrifted(build_summary)

\* C13: when a self-report of success names another product, the expected
\* path and the final path are recomputed with the reported name: the
\* output_path of the success record carries that name and nothing is left at
\* the intermediate path of that name.
C13_DriftFollowsReportedName ==
    (AttemptRecorded /\ Last(build_results).status = "success" /\ Drifted) =>
        /\ unity_output_path =
               GetUnityOutputPathWithName(platform_name, build_summary.product_name,
                                          Extension[platform_name])
        /\ Last(build_results).output_path.name =
               << build_summary.product_name, Extension[platform_name] >>
        /\ ~Exists(unity_output_path)

\* a drifted artifact was found at the reported name and relocated
C13_Witness ==
    /\ AttemptRecorded /\ Last(build_results).status = "success" /\ Drifted
    /\ seen.output
    /\ Exists(Last(build_results).output_path)

\* build_summary.json is there but holds no report: it does not parse, or
\* parses to a value that is not a non-empty object
SchemaMismatch ==
    /\ seen.summary
    /\ build_summary.json \in { None, "falsy", "nonobject" }

\* C14: a self-report that is present but does not match the schema makes
\* reconciliation use the exit code and the existence of the output, and
\* reconciliation raises nothing.
C14_SchemaMismatchFallsBack ==
    (Reconciled /\ SchemaMismatch) =>
        /\ caught.at # "reconcile"
        /\ build_succeeded <=> (returncode = 0 /\ seen.output)

\* C15: when the self-report lists errors and the build reconciles as
\* failed, the failed record appended for the platform holds the full list.
C15_ErrorsRetained ==
    (AttemptRecorded /\ Last(build_results).status = "failed"
        /\ Truthy(build_summary) /\ build_summary.errors # << >>) =>
        /\ "errors" \in DOMAIN Last(build_results)
        /\ Last(build_results).errors = build_summary.errors

\* the hook subprocess of the current attempt was started
HookRan == hook_outcome # None

\* the current attempt went past the hook decision of line 164
GatePassed ==
    \/ pc \in { "build", "reconcile", "failed" } \cup RelocationPcs
    \/ AttemptRecorded /\ Last(build_results).status # "skipped"

SuccessRecords ==
    Cardinality({ i \in 1..Len(build_results) : build_results[i].status = "success" })

KnownRequested ==
    Cardinality({ i \in 1..Len(call.platforms) : call.platforms[i] \in KnownPlatforms })

\* C17 (as stated): when a batch returns, the success count it reports is the
\* number of success records in the list and the total it reports is the
\* number of platforms requested.
C17_CountsMatchRequest ==
    pc = "returned" =>
        /\ ShowBuildSummary(build_results, success_count).successful = SuccessRecords
        /\ ShowBuildSummary(build_results, success_count).total = Len(call.platforms)

\* C17 (amended): the success count is the number of success records at every
\* moment of the batch; when the batch returns, the total it reports is the
\* length of the list, which is the number of requested names that are in
\* PLATFORMS.
C17_CountsMatchRecords ==
    /\ success_count = SuccessRecords
    /\ pc = "returned" =>
          /\ ShowBuildSummary(build_results, success_count).successful = SuccessRecords
          /\ ShowBuildSummary(build_results, success_count).total = Len(build_results)
          /\ Len(build_results) = KnownRequested

\* first platform unavailable, second succeeds
C17_Witness ==
    /\ pc = "returned"
    /\ Len(call.platforms) = 2 /\ Len(build_results) = 2
    /\ build_results[1].status = "skipped"
    /\ build_results[2].status = "success"
    /\ ShowBuildSummary(build_results, success_count) = [ total |-> 2, successful |-> 1 ]

\* C18: the version_timestamp folder of the output_path of a success record
\* is the one get_build_output_path made before the build was dispatched.
C18_SingleTimestampSample ==
    (AttemptRecorded /\ Last(build_results).status = "success") =>
        Parent(Last(build_results).output_path).sub = eager_dir.sub

\* C19: the expected path and the final path of an attempt are under the
\* same Builds/<platformDir>, end in the same name, and differ only in the
\* version folder: <version> against <version>_<timestamp>.
C19_SamePlatformDir ==
    (unity_output_path # NoPath /\ final_output_path # NoPath) =>
        /\ unity_output_path.dir = final_output_path.dir
        /\ unity_output_path.name = final_output_path.name
        /\ unity_output_path.sub = << project_version >>
        /\ Len(final_output_path.sub) = 2
        /\ final_output_path.sub[1] = project_version

\* the self-report of the current attempt states the size of the build
SizeReported == Truthy(build_summary) /\ build_summary.build_size_mb # << >>

\* C20: when the self-report of a build that ends in success states
\* build_size_mb, the size_mb of the success record is that value.
C20_ReportedSizeSupersedes ==
    (AttemptRecorded /\ Last(build_results).status = "success" /\ SizeReported) =>
        Last(build_results).size_mb = build_summary.build_size_mb[1]

\* 12.5 MB reported, another size computed from the relocated files
C20_Witness ==
    /\ AttemptRecorded /\ Last(build_results).status = "success" /\ SizeReported
    /\ Last(build_results).size_mb = 25
    /\ ComputedSize(platform_name, Last(build_results).output_path) \in { 2, 4, 6 }

\* C21: no step of an attempt changes the configuration: project_name,
\* project_version, project_root and unity_path keep the values the run began
\* with, also after a self-report named another product.
C21_ConfigNeverMutated == config = InitialConfig

\* a drifted build was relocated under the reported name, the configured name
\* being what it was
C21_Witness ==
    /\ AttemptRecorded /\ Last(build_results).status = "success" /\ Drifted
    /\ Last(build_results).output_path.name[1] = OtherName
    /\ config.project_name = project_name

\* the windows sweep of lines 261-268 is under way and the entries of the
\* version folder are exactly those still to be moved
SweepPending ==
    /\ pc = "win_iter" => Listing(Parent(unity_output_path)) = items
    /\ pc = "win_move" => Listing(Parent(unity_output_path)) = items \cup { item }

\* C22: in the windows scattered-output relocation every entry of the
\* version folder is moved under the final folder with its name, an entry
\* already there under that name being removed first; nothing else is
\* removed; the version folder is removed iff it is empty after the moves.
C22_WindowsSweepMovesAll ==
    [][ /\ SweepPending /\ SweepPending'
        /\ (pc = "win_iter" /\ pc' = "win_move") =>
              /\ item' \in items
              /\ ~(Entry(Parent(final_output_path), item'.name) \in DOMAIN fs')
              /\ DOMAIN fs \ DOMAIN fs' \subseteq
                     { Entry(Parent(final_output_path), item'.name) }
        /\ (pc = "win_move" /\ pc' = "win_iter") =>
              /\ DOMAIN fs' =
                     (DOMAIN fs \ { item }) \cup { Entry(Parent(final_output_path), item.name) }
              /\ fs'[Entry(Parent(final_output_path), item.name)] = fs[item]
        /\ (pc = "cleanup" /\ platform_name = "windows" /\ pc' = "size") =>
              /\ Listing(Parent(unity_output_path)) = {}
              /\ Parent(unity_output_path) \notin dirs' ]_vars

\* the sweep is over: the artifact and the self-report are under the final
\* folder and the version folder is gone
C22_Witness ==
    /\ pc = "size" /\ platform_name = "windows"
    /\ Parent(unity_output_path) \notin dirs
    /\ Exists(final_output_path)
    /\ Exists(Entry(Parent(final_output_path), SUMMARY_NAME))
    /\ Exists(Entry(Parent(final_output_path), PLAYER_NAME))

\* C23: entries under Builds are moved or deleted only by the relocation of
\* an attempt that reconciled as success: apart from the build tool itself,
\* every other step (availability, paths, hook, reconciliation, the failed
\* record) leaves every entry and every directory in place.
C23_RelocationOnlyOnSuccess ==
    [][ /\ pc \in RelocationPcs => build_succeeded
        /\ pc' \in RelocationPcs => build_succeeded'
        /\ pc \notin RelocationSteps \cup { "build" } =>
              /\ fs' = fs
              /\ dirs \subseteq dirs' ]_vars

\* the report said failed although the artifact is there: it stays where the
\* build tool left it
C23_Witness ==
    /\ AttemptRecorded /\ Last(build_results).status = "failed"
    /\ "build" \in spawned /\ ~build_succeeded
    /\ Exists(unity_output_path) /\ fs[unity_output_path].build = nbuilds

\* C25: on a platform whose relocation moves the artifact alone, when the
\* build of an attempt wrote no self-report, a build_summary.json found in
\* the version folder (left by an earlier attempt) does not decide the
\* outcome: exit code and existence do.
C25_StaleReportIgnored ==
    (Reconciled /\ platform_name # "windows"
        /\ seen.summary /\ SummaryPath(platform_name) \notin fresh) =>
        /\ caught.at # "reconcile"
        /\ build_succeeded <=> (returncode = 0 /\ seen.output)

\* C26: after a success record for windows or webgl, the directory that
\* holds the recorded output_path is among those get_latest_build_path
\* chooses from.
C26_LatestIsJustBuilt ==
    (AttemptRecorded /\ Last(build_results).status = "success"
        /\ Last(build_results).platform \in { "windows", "webgl" }) =>
        Parent(Last(build_results).output_path)
            \in LatestBuildCandidates(Last(build_results).platform)

\* the records appended since the current call began
OwnRecords == SubSeq(build_results, Len(prior) + 1, Len(build_results))

IsPrefix(a, b) == Len(a) <= Len(b) /\ SubSeq(b, 1, Len(a)) = a

\* C27: build_results is append-only across the calls made on one
\* PlatformBuilder: no step changes or removes a record; the list a call
\* returns is the list as the call found it followed by that call's own
\* records, one per known platform requested, in order, while success_count
\* counts the successes of that call alone.
C27_ResultsAppendOnly ==
    [][ /\ IsPrefix(build_results, build_results')
        /\ IsPrefix(prior', build_results')
        /\ success_count' =
              Cardinality({ i \in (Len(prior') + 1)..Len(build_results') :
                              build_results'[i].status = "success" })
        /\ pc' = "returned" =>
              Len(build_results') = Len(prior') + KnownRequested' ]_vars

\* a second call returned a list longer than its request, holding a success
\* of the first call that the second call's count does not include
C27_Witness ==
    /\ pc = "returned" /\ ncalls = 2
    /\ Len(build_results) > Len(call.platforms)
    /\ SuccessRecords = 1 /\ success_count = 0

\* C28: a requested name outside PLATFORMS gets no record, and when the
\* batch is over every known platform after it in the list has been
\* attempted.
C28_UnknownNameSkipped ==
    /\ \A i \in 1..Len(build_results) : build_results[i].platform \in KnownPlatforms
    /\ (BatchOver /\ call.mode = "selected") =>
          \A i \in 1..Len(call.platforms) :
              call.platforms[i] \notin KnownPlatforms =>
                  \A j \in (i + 1)..Len(call.platforms) :
                      call.platforms[j] \in KnownPlatforms => j <= Attempted

\* C29: whenever build_webgl_with_upload or build_windows_with_upload has
\* returned, its first element is True exactly when the platform's attempt
\* ended in a success record; after a failed build no upload was attempted
\* and the message names the failed build; after a successful build the
\* message is a different one for "not configured", "upload failed" and
\* "upload succeeded". When build_platform raised, nothing is returned.
C29_WrapperReportsBuild ==
    /\ pc = "done" =>
          /\ ret.success = (build_results # << >> /\ Last(build_results).status = "success")
          /\ ~ret.success =>
                ret.upload = "none" /\ ret.message = BUILD_FAILED[call.platforms[1]]
          /\ ret.success =>
                /\ ret.upload = "none"
                      <=> ret.message = "Build succeeded, upload not configured"
                /\ ret.upload = "failed" <=> ret.message = "Build succeeded, upload failed"
                /\ ret.upload = "succeeded" <=> ret.message = "Build and upload succeeded"
    /\ pc # "done" => ret = NoReturn

\* a successful build whose upload failed is still reported as True
C29_Witness ==
    /\ pc = "done" /\ ret.success = TRUE /\ ret.upload = "failed"
    /\ Last(build_results).status = "success"

\* C30: whenever upload_webgl_build has returned, self.ftp is None and no
\* control connection is left open.
C30_SessionClosedOnReturn ==
    fpc = "returned" => (ftp = None /\ sock # "open")

\* C24: provided every main build process exits, a batch over a finite list
\* is eventually over; a hook that runs into its timeout ends the attempt
\* with a failed record and the loop moves on to the next platform.
C24_BatchTerminates ==
    /\ <>BatchOver
    /\ [][ (pc = "run_hook" /\ pc' # "run_hook" /\ hook_outcome' = "timeout") =>
              /\ pc' = "loop" /\ idx' = idx + 1
              /\ build_results' =
                    Append(build_results,
                           Result(platform_name, "failed", "Pre-build hook failed", NoPath)) ]_vars

\* the batch returned with a record for each of two platforms although the
\* hook of the first attempt failed and the hook of the second timed out
C24_Witness ==
    /\ pc = "returned" /\ Len(call.platforms) = 2 /\ Len(build_results) = 2
    /\ build_results[1].reason = "Pre-build hook failed"
    /\ hook_outcome = "timeout" /\ build_results[2].reason = "Pre-build hook failed"

====
